---- MODULE Spec2Model ----
(***************************************************************************)
(* Geofence evaluation of the map screen (app/map.tsx): the haversine      *)
(* distance, checkGeofenceStatus, and the triggers that call it (the       *)
(* 60-second poll, the manual refresh and the onValue zone listener).      *)
(*                                                                         *)
(* Units.  A coordinate is a pair of grid offsets from the screen's        *)
(* default position (14.5995, 120.9842); one grid step is 0.0005 degree.   *)
(* Lengths (distances, radii) are in millimetres.  Trigonometric values    *)
(* are fixed-point integers; every product stays below 2^31.               *)
(*                                                                         *)
(* State that only the display reads (geofences, lastUpdate, lastFetch,    *)
(* currentRegion, isRefreshing, debugInfo) is left out.                    *)
(***************************************************************************)
EXTENDS Integers, Sequences, FiniteSets, TLC

\* ------------------------------------------------------------------ bounds

\* Longest zone list handed to an evaluation or held by the store.
MaxZones == 2
\* Writes to the store (location or zone set) in one run.
MaxWrites == 1
\* Fetches started by the interval or the refresh button in one run.
MaxStarts == 1
\* Fetches (fetchLocationAndGeofenceData calls) that may be in flight at once.
MaxFetches == 2
\* Registrations of earlier renders that may stay attached beside the current one.
MaxStale == 0
\* checkGeofenceStatus calls that may be suspended at the notification await.
MaxSuspended == 2

\* ---------------------------------------------------------------- GeoMath

\* A null ChildLocation (no child_location/current in the store).
NoLocation == [null |-> TRUE]

\* Integer square root: the largest n with n*n <= x, by bisection on lo..hi.
RECURSIVE IsqrtIn(_, _, _)
IsqrtIn(x, lo, hi) ==
  IF lo >= hi THEN lo
  ELSE LET mid == (lo + hi + 1) \div 2
       IN  IF mid * mid <= x THEN IsqrtIn(x, mid, hi) ELSE IsqrtIn(x, lo, mid - 1)

Isqrt(x) == IsqrtIn(x, 0, 46340)

\* R = 6371e3 metres, as millimetres per 1e-8 radian, times 100:
\* 6371000 m * 1e-8 = 0.06371 m = 63.71 mm.
EarthRadius == 6371

\* Math.sin(delta / 2) for a difference of d grid steps, scaled by 1e8:
\* d * 0.0005 degree = d * 8.7266e-6 rad, half of it 4.3633e-6 rad.
SinHalf(d) == 436 * d

\* Math.cos(lat) scaled by 1e3, at the latitude of grid offset k
\* (cos 14.5995 deg = 0.96771, falling by 2.2e-6 per step).
Cos(k) == 968

\* Faulty variant of haversineDistance: deltaLon taken from the first point's latitude.
haversineDistanceMixed(coords1, coords2) ==
  LET deltaLat == coords2.latitude - coords1.latitude
      deltaLon == coords2.longitude - coords1.latitude
      a == SinHalf(deltaLat) * SinHalf(deltaLat)
           + (((Cos(coords1.latitude) * Cos(coords2.latitude)) \div 1000)
              * (SinHalf(deltaLon) * SinHalf(deltaLon))) \div 1000
      c == 2 * Isqrt(a)
  IN  (EarthRadius * c) \div 100

\* haversineDistance(coords1, coords2) in millimetres.
\*   a is scaled by 1e16, c by 1e8.  For the a of this grid (below 1e-9)
\*   atan2(sqrt(a), sqrt(1 - a)) equals sqrt(a) to ten digits.
haversineDistance(coords1, coords2) ==
  LET deltaLat == coords2.latitude - coords1.latitude
      deltaLon == coords2.longitude - coords1.longitude
      a == SinHalf(deltaLat) * SinHalf(deltaLat)
           + (((Cos(coords1.latitude) * Cos(coords2.latitude)) \div 1000)
              * (SinHalf(deltaLon) * SinHalf(deltaLon))) \div 1000
      c == 2 * Isqrt(a)
  IN  (EarthRadius * c) \div 100

\* ------------------------------------------------------------- data model

Status == {"unknown", "inside", "outside"}

Coord(lat, lon) == [latitude |-> lat, longitude |-> lon]

\* ChildLocation: latitude, longitude, timestamp.
Loc(lat, lon, ts) == [latitude |-> lat, longitude |-> lon, timestamp |-> ts]

\* Geofence: id, name, center, radius (millimetres), isActive.
Zone(id, name, center, radius, active) ==
  [id |-> id, name |-> name, center |-> center, radius |-> radius, isActive |-> active]

\* The locations the tracked device reports: the default position of the
\* screen, 55 m north of it, and 167 m north of it.
Locations == {Loc(0, 0, 1), Loc(1, 0, 2), Loc(3, 0, 3)}

\* The zones of the store: "Home" (100 m around the default position) and
\* "School" (150 m around the third location), each active or not.
\* Locations 1 and 2 lie in Home, locations 2 and 3 lie in School.
ZoneCatalogue ==
  { Zone("a", "Home", Coord(0, 0), 100000, act) : act \in BOOLEAN }
  \cup { Zone("b", "School", Coord(3, 0), 150000, act) : act \in BOOLEAN }

DistinctIds(gs) ==
  \A i, j \in 1 .. Len(gs) : i # j => gs[i].id # gs[j].id

\* Geofence[]: the zone lists, in any key order, one record per id.
ZoneLists ==
  { gs \in UNION { [1 .. n -> ZoneCatalogue] : n \in 0 .. MaxZones } : DistinctIds(gs) }

\* The zone sets the store holds: none, or Home, active or not.
StoreZoneLists ==
  { gs \in ZoneLists : Len(gs) <= 1 /\ \A i \in 1 .. Len(gs) : gs[i].id = "a" }

\* The locations the store holds: inside Home only, and inside School only.
StoreLocations == {Loc(0, 0, 1), Loc(3, 0, 3)}

\* ------------------------------------------------- checkGeofenceStatus core

\* Faulty variant of ScanZones: the loop without its break, the last match deciding.
RECURSIVE ScanZonesNoBreak(_, _, _)
ScanZonesNoBreak(childLoc, activeGeofences, i) ==
  IF i > Len(activeGeofences)
  THEN [currentStatus |-> "outside", enteredGeofenceName |-> "null"]
  ELSE LET geofence == activeGeofences[i]
           rest == ScanZonesNoBreak(childLoc, activeGeofences, i + 1)
       IN  IF rest.currentStatus = "inside" THEN rest
           ELSE IF geofence.isActive
                   /\ haversineDistance(childLoc, geofence.center) <= geofence.radius
           THEN [currentStatus |-> "inside", enteredGeofenceName |-> geofence.name]
           ELSE rest

\* Faulty variant of ScanZones: the isActive test left out of the loop.
RECURSIVE ScanZonesIgnoringActive(_, _, _)
ScanZonesIgnoringActive(childLoc, activeGeofences, i) ==
  IF i > Len(activeGeofences)
  THEN [currentStatus |-> "outside", enteredGeofenceName |-> "null"]
  ELSE LET geofence == activeGeofences[i]
       IN  IF haversineDistance(childLoc, geofence.center) <= geofence.radius
           THEN [currentStatus |-> "inside", enteredGeofenceName |-> geofence.name]
           ELSE ScanZonesIgnoringActive(childLoc, activeGeofences, i + 1)

\* Faulty variant of ScanZones: the boundary excluded (< for <=).
RECURSIVE ScanZonesStrict(_, _, _)
ScanZonesStrict(childLoc, activeGeofences, i) ==
  IF i > Len(activeGeofences)
  THEN [currentStatus |-> "outside", enteredGeofenceName |-> "null"]
  ELSE LET geofence == activeGeofences[i]
       IN  IF geofence.isActive
              /\ haversineDistance(childLoc, geofence.center) < geofence.radius
           THEN [currentStatus |-> "inside", enteredGeofenceName |-> geofence.name]
           ELSE ScanZonesStrict(childLoc, activeGeofences, i + 1)

\* Faulty variant of ScanZones: the break taken after the first active zone,
\* whether it contains the location or not.
RECURSIVE ScanZonesFirstOnly(_, _, _)
ScanZonesFirstOnly(childLoc, activeGeofences, i) ==
  IF i > Len(activeGeofences)
  THEN [currentStatus |-> "outside", enteredGeofenceName |-> "null"]
  ELSE LET geofence == activeGeofences[i]
       IN  IF geofence.isActive
           THEN IF haversineDistance(childLoc, geofence.center) <= geofence.radius
                THEN [currentStatus |-> "inside", enteredGeofenceName |-> geofence.name]
                ELSE [currentStatus |-> "outside", enteredGeofenceName |-> "null"]
           ELSE ScanZonesFirstOnly(childLoc, activeGeofences, i + 1)

\* Faulty variant of ScanZones: a sample from before the newest one known is
\* set aside as stale and counts for no zone.
RECURSIVE ScanZonesRejectingStale(_, _, _)
ScanZonesRejectingStale(childLoc, activeGeofences, i) ==
  IF i > Len(activeGeofences) \/ childLoc.timestamp < 2
  THEN [currentStatus |-> "outside", enteredGeofenceName |-> "null"]
  ELSE LET geofence == activeGeofences[i]
       IN  IF geofence.isActive
              /\ haversineDistance(childLoc, geofence.center) <= geofence.radius
           THEN [currentStatus |-> "inside", enteredGeofenceName |-> geofence.name]
           ELSE ScanZonesRejectingStale(childLoc, activeGeofences, i + 1)

\* Faulty variant of ScanZones: the matching zone's name not taken down.
RECURSIVE ScanZonesUnnamed(_, _, _)
ScanZonesUnnamed(childLoc, activeGeofences, i) ==
  IF i > Len(activeGeofences)
  THEN [currentStatus |-> "outside", enteredGeofenceName |-> "null"]
  ELSE LET geofence == activeGeofences[i]
       IN  IF geofence.isActive
              /\ haversineDistance(childLoc, geofence.center) <= geofence.radius
           THEN [currentStatus |-> "inside", enteredGeofenceName |-> "null"]
           ELSE ScanZonesUnnamed(childLoc, activeGeofences, i + 1)

\* A record of the store has a center object (geofence.center is not undefined).
HasCenter(geofence) == "center" \in DOMAIN geofence

\* Both coordinates of a center are numbers; with one undefined, toRad gives
\* NaN, the distance is NaN, and NaN <= radius is false.
IsNumeric(coords) == {"latitude", "longitude"} \subseteq DOMAIN coords

\* The for loop of checkGeofenceStatus from index i on: the first active zone
\* within its radius decides (break); none leaves 'outside' and a null name.
\* An active record without a center makes haversineDistance read
\* coords2.latitude of undefined: the TypeError ends the loop and the call.
RECURSIVE ScanZones(_, _, _)
ScanZones(childLoc, activeGeofences, i) ==
  IF i > Len(activeGeofences)
  THEN [currentStatus |-> "outside", enteredGeofenceName |-> "null"]
  ELSE LET geofence == activeGeofences[i]
       IN  IF geofence.isActive /\ ~HasCenter(geofence)
           THEN [currentStatus |-> "throws", enteredGeofenceName |-> "null"]
           ELSE IF geofence.isActive
                   /\ IsNumeric(geofence.center)
                   /\ haversineDistance(childLoc, geofence.center) <= geofence.radius
           THEN [currentStatus |-> "inside", enteredGeofenceName |-> geofence.name]
           ELSE ScanZones(childLoc, activeGeofences, i + 1)

\* The guard of the reset branch: no location, or an empty list.
IsReset(childLoc, activeGeofences) ==
  childLoc = NoLocation \/ Len(activeGeofences) = 0

\* Faulty variant of NotificationFor: the two notifications exchanged.
NotificationForSwapped(prev, currentStatus) ==
  IF prev # "unknown"
  THEN IF currentStatus = "inside" /\ prev = "outside" THEN "exited"
       ELSE IF currentStatus = "outside" /\ prev = "inside" THEN "entered"
       ELSE "none"
  ELSE "none"

\* Faulty variant of NotificationFor: 'unknown' taken for a status to transition from.
NotificationForFromUnknown(prev, currentStatus) ==
  IF currentStatus = "inside" /\ prev # "inside" THEN "entered"
  ELSE IF currentStatus = "outside" /\ prev # "outside" THEN "exited"
  ELSE "none"

\* Faulty variant of PreviousAfterReset: the reset branch leaving the previous status.
PreviousAfterResetKept(stored) == stored

\* The previous status the reset branch stores.
PreviousAfterReset(stored) == "unknown"

\* The notification logic: the event a call raises, from the previous status
\* its callback closed over and the status it computed.
NotificationFor(prev, currentStatus) ==
  IF prev # "unknown"
  THEN IF currentStatus = "inside" /\ prev = "outside" THEN "entered"
       ELSE IF currentStatus = "outside" /\ prev = "inside" THEN "exited"
       ELSE "none"
  ELSE "none"

\* -------------------------------------------------------------------- state

VARIABLES
  dbLocation,              \* store: child_location/current, or NoLocation
  dbGeofences,             \* store: geofences, as the list a snapshot yields
  childLocation,           \* useState childLocation
  loading,                 \* useState loading
  geofenceStatus,          \* useState geofenceStatus
  previousGeofenceStatus,  \* useState previousGeofenceStatus
  mounted,                 \* the first render's effects have run
  rPrev,                   \* previousGeofenceStatus of the committed render: the
                           \*   value checkGeofenceStatus closes over
  rLoc,                    \* childLocation of the committed render
  locFresh,                \* childLocation holds an object set since that render
  fetches,                 \* in-flight fetchLocationAndGeofenceData calls, counted
                           \*   by the previous status their callback closes over
  listeners,               \* registered onValue callbacks, by what they close over
  pendingL,                \* listeners with a snapshot not yet delivered
  suspended,               \* calls waiting on scheduleNotificationAsync, in call order
  last,                    \* history: the most recent call a host made directly
  overlapped,              \* history: the most recent call began while one waited
  fired,                   \* history: notifications since the device's status changed
  readFailed,              \* history: the handler that ran last was a failed read
  writes,                  \* store writes so far
  starts                   \* interval and refresh starts so far

\* app/geofence.tsx (GeofenceScreen)
VARIABLES
  geofences,               \* useState geofences: the list loadGeofences last set
  isCreating,              \* useState isCreating
  isEditing,               \* useState isEditing
  editingGeofence,         \* useState editingGeofence, or NoZone
  selectedCenter,          \* useState selectedCenter, or NoCenter
  radius,                  \* useState radius
  geofenceName,            \* useState geofenceName
  showNameModal,           \* useState showNameModal
  opened,                  \* the mount effects have run
  loadPending,             \* a loadGeofences read is in flight
  pendingSets,             \* set() requests not yet answered, in request order
  pushed,                  \* keys push() has generated so far
  zoneLast                 \* history: what the handler that ran last did

\* app/settings.tsx (SettingsScreen) and the pairing records of the store
VARIABLES
  paired_devices,          \* store: paired_devices/<uid>, or NoDevice
  device_info,             \* store: device_info/<device>/parentUid, or NoParent
  pairing_codes,           \* store: pairing_codes/<code>, or NoEntry
  claimedCode,             \* store: parent_settings/<uid>/claimedCode, or NoCode
  deviceId,                \* useState deviceId
  pairingCode,             \* useState pairingCode
  now,                     \* Date.now()
  pairTask,                \* the pairing handler that is running, and its next write
  pairLast                 \* history: the pairing handler that finished last

storeVars == <<dbLocation, dbGeofences>>
stateVars == <<childLocation, loading, geofenceStatus, previousGeofenceStatus>>
renderVars == <<mounted, rPrev, rLoc, locFresh>>
taskVars == <<fetches, listeners, pendingL, suspended>>
historyVars == <<last, overlapped, fired>>
envVars == <<writes, starts>>
mapVars == <<stateVars, renderVars, taskVars, historyVars, readFailed, envVars>>
zoneVars == <<geofences, isCreating, isEditing, editingGeofence, selectedCenter, radius,
              geofenceName, showNameModal, opened, loadPending, pendingSets, pushed,
              zoneLast>>
pairVars == <<paired_devices, device_info, pairing_codes, claimedCode, deviceId,
              pairingCode, now, pairTask, pairLast>>
elsewhere == <<zoneVars, pairVars>>
vars == <<storeVars, mapVars, elsewhere>>

\* What a registered listener closes over.
ListenerClosure(loc, prev) == [childLocation |-> loc, prev |-> prev]

NoCall ==
  [trigger |-> "none", stored |-> "unknown", captured |-> "unknown",
   childLoc |-> NoLocation, zones |-> <<>>, currentStatus |-> "unknown",
   event |-> "none", zone |-> "null", outcome |-> "none",
   repeat |-> FALSE, before |-> "none", older |-> FALSE]

NoneFired == [entered |-> 0, exited |-> 0]

InFlight == fetches["unknown"] + fetches["inside"] + fetches["outside"]

RemoveAt(seq, i) == SubSeq(seq, 1, i - 1) \o SubSeq(seq, i + 1, Len(seq))

\* History only: one more notification of kind ev since the device's status changed.
Count(f, ev) ==
  IF ev = "entered" THEN [f EXCEPT !.entered = IF @ < 2 THEN @ + 1 ELSE @]
  ELSE IF ev = "exited" THEN [f EXCEPT !.exited = IF @ < 2 THEN @ + 1 ELSE @]
  ELSE f

\* ------------------------------------------------------ checkGeofenceStatus

\* History only: what the call before the most recent one was.
CallKind(call) ==
  IF call.trigger = "none" THEN "none"
  ELSE IF call.childLoc = NoLocation THEN
    IF call.stored = "inside" THEN "lostInside" ELSE "lost"
  ELSE IF call.stored = "unknown" /\ call.captured = "unknown" THEN "first"
  ELSE "other"

\* One call of checkGeofenceStatus(childLoc, activeGeofences) on a callback that
\* closes over previous status prev, up to its return or its first await.
\*   - no location or an empty list: both statuses are reset to 'unknown';
\*   - the scan throws (a record without a center): the call ends there, its
\*     promise rejected, nothing displayed or stored;
\*   - otherwise the scan's status is displayed; with no notification due the
\*     previous status is stored at once, with one due the call requests it
\*     (scheduleNotificationAsync) and waits, the previous status not yet stored.
checkGeofenceStatus(childLoc, activeGeofences, prev, trigger) ==
  LET call == [trigger |-> trigger, stored |-> previousGeofenceStatus,
               captured |-> prev, childLoc |-> childLoc, zones |-> activeGeofences,
               currentStatus |-> "unknown", event |-> "none", zone |-> "null",
               outcome |-> "done",
               repeat |-> (last.trigger # "none" /\ last.childLoc = childLoc
                           /\ last.zones = activeGeofences),
               before |-> CallKind(last),
               older |-> (last.childLoc # NoLocation /\ childLoc # NoLocation
                          /\ childLoc.timestamp < last.childLoc.timestamp)]
      Kept(record) == IF trigger = "direct" THEN record ELSE last
  IN
  /\ overlapped' = (Len(suspended) > 0)
  /\ IF IsReset(childLoc, activeGeofences)
     THEN /\ geofenceStatus' = "unknown"
          /\ previousGeofenceStatus' = PreviousAfterReset(previousGeofenceStatus)
          /\ last' = Kept(call)
          /\ UNCHANGED <<suspended, fired>>
     ELSE LET scan == ScanZones(childLoc, activeGeofences, 1)
              currentStatus == scan.currentStatus
              event == NotificationFor(prev, currentStatus)
          IN  IF currentStatus = "throws"
              THEN /\ last' = Kept([call EXCEPT !.outcome = "threw"])
                   /\ UNCHANGED <<geofenceStatus, previousGeofenceStatus, suspended,
                                  fired>>
              ELSE
              /\ geofenceStatus' = currentStatus
              /\ IF event = "none"
                 THEN /\ previousGeofenceStatus' = currentStatus
                      /\ last' = Kept([call EXCEPT !.currentStatus = currentStatus])
                      /\ UNCHANGED <<suspended, fired>>
                 ELSE /\ Len(suspended) < MaxSuspended
                      /\ suspended' = Append(suspended, currentStatus)
                      /\ fired' = Count(fired, event)
                      /\ last' = Kept([call EXCEPT !.currentStatus = currentStatus,
                                                   !.event = event,
                                                   !.zone = IF event = "entered"
                                                            THEN scan.enteredGeofenceName
                                                            ELSE "null",
                                                   !.outcome = "awaiting"])
                      /\ UNCHANGED previousGeofenceStatus

\* scheduleNotificationAsync resolves for the i-th waiting call: the call
\* resumes and stores its status as the previous status.
NotifyResolve(i) ==
  /\ i \in 1 .. Len(suspended)
  /\ previousGeofenceStatus' = suspended[i]
  /\ suspended' = RemoveAt(suspended, i)
  /\ last' = IF i = Len(suspended) /\ last.outcome = "awaiting"
             THEN [last EXCEPT !.outcome = "done"] ELSE last
  /\ readFailed' = FALSE
  /\ UNCHANGED elsewhere
  /\ UNCHANGED envVars
  /\ UNCHANGED <<storeVars, childLocation, loading, geofenceStatus, renderVars,
                 fetches, listeners, pendingL, overlapped, fired>>

\* scheduleNotificationAsync rejects for the i-th waiting call: the await
\* throws, nothing catches it, and the call ends without storing its status.
NotifyReject(i) ==
  /\ i \in 1 .. Len(suspended)
  /\ suspended' = RemoveAt(suspended, i)
  /\ last' = IF i = Len(suspended) /\ last.outcome = "awaiting"
             THEN [last EXCEPT !.outcome = "failed"] ELSE last
  /\ readFailed' = FALSE
  /\ UNCHANGED elsewhere
  /\ UNCHANGED envVars
  /\ UNCHANGED <<storeVars, stateVars, renderVars,
                 fetches, listeners, pendingL, overlapped, fired>>

\* ------------------------------------------------------------------- render

\* childLocation differs (Object.is) from the committed render's.
LocChanged ==
  IF childLocation = NoLocation THEN rLoc # NoLocation ELSE locFresh

PrevChanged == previousGeofenceStatus # rPrev

NeedsRender == ~mounted \/ PrevChanged \/ LocChanged

\* A render commits: useCallback([previousGeofenceStatus]) yields a callback
\* closing over the stored previous status.
CommitRender ==
  /\ mounted' = TRUE
  /\ rPrev' = previousGeofenceStatus
  /\ rLoc' = childLocation
  /\ locFresh' = FALSE

\* The cleanup of the listener effect, off(geofencesRef, 'value', unsubscribe):
\* the registrations it may leave.  It is handed the function onValue
\* returned, not the callback that was registered; the SDK detaches a
\* registration only when the callback matches, so the registration may stay
\* attached (kept here while at most MaxStale earlier ones are).
Off(registered, callback) ==
  {registered \ {callback}}
  \cup (IF Cardinality(registered) <= MaxStale THEN {registered} ELSE {})

\* Faulty variant of Render: the poll effect depending on childLocation as well,
\* so that each fetch, storing a new location object, starts the next.
RenderPollOnLocation ==
  /\ NeedsRender
  /\ LET pollRuns == ~mounted \/ PrevChanged \/ LocChanged
         listenerRuns == ~mounted \/ PrevChanged \/ LocChanged
         callback == ListenerClosure(childLocation, previousGeofenceStatus)
     IN  /\ pollRuns => InFlight < MaxFetches
         /\ fetches' = IF pollRuns
                       THEN [fetches EXCEPT ![previousGeofenceStatus] = @ + 1]
                       ELSE fetches
         /\ IF listenerRuns
            THEN \E kept \in Off(listeners, ListenerClosure(rLoc, rPrev)) :
                   /\ listeners' = kept \cup {callback}
                   /\ pendingL' = (pendingL \cap kept) \cup {callback}
            ELSE UNCHANGED <<listeners, pendingL>>
  /\ CommitRender
  /\ readFailed' = FALSE
  /\ UNCHANGED elsewhere
  /\ UNCHANGED envVars
  /\ UNCHANGED <<storeVars, stateVars, suspended, historyVars>>

\* A render and the effects it runs.  The poll effect (deps
\* [checkGeofenceStatus]) calls fetchLocationAndGeofenceData at once and renews
\* the interval; the listener effect (deps [childLocation, checkGeofenceStatus])
\* runs its cleanup and subscribes a callback closing over this render.
Render ==
  /\ NeedsRender
  /\ LET pollRuns == ~mounted \/ PrevChanged
         listenerRuns == ~mounted \/ PrevChanged \/ LocChanged
         callback == ListenerClosure(childLocation, previousGeofenceStatus)
     IN  /\ pollRuns => InFlight < MaxFetches
         /\ fetches' = IF pollRuns
                       THEN [fetches EXCEPT ![previousGeofenceStatus] = @ + 1]
                       ELSE fetches
         /\ IF listenerRuns
            THEN \E kept \in Off(listeners, ListenerClosure(rLoc, rPrev)) :
                   /\ listeners' = kept \cup {callback}
                   /\ pendingL' = (pendingL \cap kept) \cup {callback}
            ELSE UNCHANGED <<listeners, pendingL>>
  /\ CommitRender
  /\ readFailed' = FALSE
  /\ UNCHANGED elsewhere
  /\ UNCHANGED envVars
  /\ UNCHANGED <<storeVars, stateVars, suspended, historyVars>>

\* ----------------------------------------------------------------- triggers

\* The interval fires: fetchLocationAndGeofenceData of the render whose effect
\* set the interval starts, and waits on its two reads.
Tick ==
  /\ mounted
  /\ InFlight < MaxFetches
  /\ fetches' = [fetches EXCEPT ![rPrev] = @ + 1]
  /\ readFailed' = FALSE
  /\ UNCHANGED elsewhere
  /\ starts < MaxStarts
  /\ starts' = starts + 1
  /\ UNCHANGED writes
  /\ UNCHANGED <<storeVars, stateVars, renderVars, listeners, pendingL, suspended,
                 historyVars>>

\* Faulty variant of Refresh: the manual refresh also clearing the previous status.
RefreshResetting ==
  /\ mounted
  /\ ~loading
  /\ InFlight < MaxFetches
  /\ fetches' = [fetches EXCEPT ![rPrev] = @ + 1]
  /\ previousGeofenceStatus' = "unknown"
  /\ readFailed' = FALSE
  /\ UNCHANGED elsewhere
  /\ starts < MaxStarts
  /\ starts' = starts + 1
  /\ UNCHANGED writes
  /\ UNCHANGED <<storeVars, childLocation, loading, geofenceStatus, renderVars,
                 listeners, pendingL, suspended, historyVars>>

\* handleRefresh: the refresh or retry button starts a fetch (the buttons are
\* on the screens shown once loading is over).
Refresh ==
  /\ mounted
  /\ ~loading
  /\ InFlight < MaxFetches
  /\ fetches' = [fetches EXCEPT ![rPrev] = @ + 1]
  /\ readFailed' = FALSE
  /\ UNCHANGED elsewhere
  /\ starts < MaxStarts
  /\ starts' = starts + 1
  /\ UNCHANGED writes
  /\ UNCHANGED <<storeVars, stateVars, renderVars, listeners, pendingL, suspended,
                 historyVars>>

\* Both reads of a fetch resolve, with the store's values of that moment: the
\* location and the zones are processed and checkGeofenceStatus is called (not
\* awaited) on the callback the fetch closes over.
FetchResolve(prev) ==
  /\ fetches[prev] > 0
  /\ fetches' = [fetches EXCEPT ![prev] = @ - 1]
  /\ childLocation' = dbLocation
  /\ locFresh' = (dbLocation # NoLocation)
  /\ loading' = FALSE
  /\ checkGeofenceStatus(dbLocation, dbGeofences, prev, "poll")
  /\ readFailed' = FALSE
  /\ UNCHANGED elsewhere
  /\ UNCHANGED envVars
  /\ UNCHANGED <<storeVars, mounted, rPrev, rLoc, listeners, pendingL>>

\* Faulty variant of FetchFail: a failed read taken for a confirmed-empty result.
FetchFailAsEmpty(prev) ==
  /\ fetches[prev] > 0
  /\ fetches' = [fetches EXCEPT ![prev] = @ - 1]
  /\ loading' = FALSE
  /\ checkGeofenceStatus(NoLocation, <<>>, prev, "poll")
  /\ readFailed' = TRUE
  /\ UNCHANGED elsewhere
  /\ UNCHANGED <<storeVars, childLocation, renderVars, listeners, pendingL, envVars>>

\* A read of a fetch throws: the catch block reports it, the finally block
\* clears the loading flags; checkGeofenceStatus is not called.
FetchFail(prev) ==
  /\ fetches[prev] > 0
  /\ fetches' = [fetches EXCEPT ![prev] = @ - 1]
  /\ loading' = FALSE
  /\ readFailed' = TRUE
  /\ UNCHANGED elsewhere
  /\ UNCHANGED envVars
  /\ UNCHANGED <<storeVars, childLocation, geofenceStatus, previousGeofenceStatus,
                 renderVars, listeners, pendingL, suspended, historyVars>>

\* The store delivers a zone snapshot to a registered callback, which calls
\* checkGeofenceStatus with the childLocation and the callback it closes over.
ListenerFire(l) ==
  /\ l \in pendingL
  /\ pendingL' = pendingL \ {l}
  /\ checkGeofenceStatus(l.childLocation, dbGeofences, l.prev, "listener")
  /\ readFailed' = FALSE
  /\ UNCHANGED elsewhere
  /\ UNCHANGED envVars
  /\ UNCHANGED <<storeVars, childLocation, loading, renderVars, fetches, listeners>>

\* The store cancels a registration (its error callback logs the error).
ListenerError(l) ==
  /\ l \in listeners
  /\ listeners' = listeners \ {l}
  /\ pendingL' = pendingL \ {l}
  /\ readFailed' = TRUE
  /\ UNCHANGED elsewhere
  /\ UNCHANGED envVars
  /\ UNCHANGED <<storeVars, stateVars, renderVars, fetches, suspended, historyVars>>

\* The debug button of the loading screen.
DebugLocation == Loc(0, 0, 4)

SkipLoading ==
  /\ mounted
  /\ loading
  /\ loading' = FALSE
  /\ childLocation' = DebugLocation
  /\ locFresh' = TRUE
  /\ readFailed' = FALSE
  /\ UNCHANGED elsewhere
  /\ UNCHANGED envVars
  /\ UNCHANGED <<storeVars, geofenceStatus, previousGeofenceStatus, mounted, rPrev,
                 rLoc, taskVars, historyVars>>

\* -------------------------------------------------------------- environment

HasActive(gs) == \E i \in 1 .. Len(gs) : gs[i].isActive

\* The device's aggregate status by the glossary: Unknown without a location
\* or an active zone, Inside when an active zone contains the location.
DeviceStatus(loc, gs) ==
  IF loc = NoLocation \/ ~HasActive(gs) THEN "unknown"
  ELSE IF \E i \in 1 .. Len(gs) :
            gs[i].isActive /\ haversineDistance(loc, gs[i].center) <= gs[i].radius
       THEN "inside" ELSE "outside"

FiredAfter(loc, gs) ==
  IF DeviceStatus(loc, gs) = DeviceStatus(dbLocation, dbGeofences)
  THEN fired ELSE NoneFired

\* The tracked device writes, or removes, child_location/current.
DbWriteLocation(loc) ==
  /\ loc # dbLocation
  /\ dbLocation' = loc
  /\ fired' = FiredAfter(loc, dbGeofences)
  /\ readFailed' = FALSE
  /\ UNCHANGED elsewhere
  /\ writes < MaxWrites
  /\ writes' = writes + 1
  /\ UNCHANGED starts
  /\ UNCHANGED <<dbGeofences, stateVars, renderVars, taskVars, last, overlapped>>

\* The zone set changes in the store: every registration is due a snapshot.
DbWriteGeofences(gs) ==
  /\ gs # dbGeofences
  /\ dbGeofences' = gs
  /\ pendingL' = listeners
  /\ fired' = FiredAfter(dbLocation, gs)
  /\ readFailed' = FALSE
  /\ UNCHANGED elsewhere
  /\ writes < MaxWrites
  /\ writes' = writes + 1
  /\ UNCHANGED starts
  /\ UNCHANGED <<dbLocation, stateVars, renderVars, fetches, listeners, suspended,
                 last, overlapped>>

\* ------------------------------------------------- app/geofence.tsx: GeofenceScreen

\* The most safe zones startCreating allows (geofences.length >= 5).
MaxSafeZones == 5
\* useState(100): the radius a new zone starts with, in millimetres.
DefaultRadius == 100000
\* The Slider's minimumValue, maximumValue and step, in millimetres.
SliderMin == 50000
SliderMax == 500000
SliderStep == 10000

\* set() requests the screen issues in one run, and how many may wait unanswered.
MaxSets == 2
MaxPendingSets == 1
\* The entries of the list, counted from its top, that are pressed.
MaxPressed == 2

\* A null editingGeofence and a null selectedCenter.
NoZone == [null |-> TRUE]
NoCenter == [null |-> TRUE]

\* The values a drag of the slider reports: its two ends.
SliderValues ==
  { v \in {SliderMin, SliderMax} :
      v >= SliderMin /\ v <= SliderMax /\ (v - SliderMin) % SliderStep = 0 }

\* What is typed into the name field: a blank, and a name with blanks around
\* it. A search result brings its place_name.
TypedNames == {" ", " Park "}
PlaceNames == {"Park"}

\* String.prototype.trim on the names above and on stored names.
Trim(s) ==
  CASE s = " " -> ""
    [] s = " Park " -> "Park"
    [] OTHER -> s

\* The place a map press, a marker drag, a search result or the route
\* parameters name.
Places == {Coord(1, 0)}

\* A stored Geofence with its createdAt.
StoredZone(id, name, center, r, active, created) ==
  [id |-> id, name |-> name, center |-> center, radius |-> r, isActive |-> active,
   createdAt |-> created]

\* The zones the store may hold when the screen opens, in key order: Home,
\* Shed (switched off, and with the malformed radius -5 m), and three more.
StoredCatalogue ==
  << StoredZone("k1", "Home", Coord(0, 0), 100000, TRUE, 1),
     StoredZone("k2", "Shed", Coord(1, 1), -5000, FALSE, 2),
     StoredZone("k3", "School", Coord(3, 0), 150000, TRUE, 3),
     StoredZone("k4", "Pool", Coord(2, 0), 50000, TRUE, 4),
     StoredZone("k5", "Gym", Coord(2, 1), 50000, TRUE, 5) >>

\* The stores the screen is opened on: four zones, and five.
ZoneStores == { SubSeq(StoredCatalogue, 1, n) : n \in {MaxSafeZones - 1, MaxSafeZones} }

\* push(): a key later than every key of the store.
PushKey(n) ==
  CASE n = 0 -> "p1"
    [] n = 1 -> "p2"
    [] n = 2 -> "p3"
    [] OTHER -> "p4"

MayRequest == Len(pendingSets) < MaxPendingSets /\ zoneLast.issued < MaxSets

ListMode == opened /\ ~isCreating /\ ~isEditing

\* History: the handler op ended with outcome.
Did(op, outcome) ==
  zoneLast' = [zoneLast EXCEPT !.op = op, !.outcome = outcome]

\* History: the handler op has issued a set() and waits for its answer.
Requested(op) ==
  zoneLast' = [zoneLast EXCEPT !.op = op, !.outcome = "requested", !.issued = @ + 1]

\* The index of the stored zone under key, 0 when there is none.
IndexOf(key) ==
  IF \E i \in 1 .. Len(dbGeofences) : dbGeofences[i].id = key
  THEN CHOOSE i \in 1 .. Len(dbGeofences) : dbGeofences[i].id = key
  ELSE 0

\* cancelOperation (lines 231-243): back to the list, which is read again.
cancelOperation ==
  /\ isCreating' = FALSE
  /\ isEditing' = FALSE
  /\ editingGeofence' = NoZone
  /\ selectedCenter' = NoCenter
  /\ geofenceName' = ""
  /\ radius' = DefaultRadius
  /\ showNameModal' = FALSE
  /\ loadPending' = TRUE

\* The mount effects with latitude and longitude route parameters: creation
\* mode on the given place, and no read of the zone list.
MountWithParams(place) ==
  /\ ~opened
  /\ opened' = TRUE
  /\ selectedCenter' = place
  /\ isCreating' = TRUE
  /\ isEditing' = FALSE
  /\ UNCHANGED zoneLast
  /\ UNCHANGED <<geofences, editingGeofence, radius, geofenceName, showNameModal,
                 loadPending, pendingSets, pushed>>
  /\ UNCHANGED <<storeVars, mapVars, pairVars>>

\* The mount effects without route parameters: the list, which is read.
MountPlain ==
  /\ ~opened
  /\ opened' = TRUE
  /\ isCreating' = FALSE
  /\ isEditing' = FALSE
  /\ loadPending' = TRUE
  /\ UNCHANGED zoneLast
  /\ UNCHANGED <<geofences, editingGeofence, selectedCenter, radius, geofenceName,
                 showNameModal, pendingSets, pushed>>
  /\ UNCHANGED <<storeVars, mapVars, pairVars>>

\* loadGeofences: the read answers with the zones the store holds then.
LoadResolve ==
  /\ loadPending
  /\ loadPending' = FALSE
  /\ geofences' = dbGeofences
  /\ UNCHANGED zoneLast
  /\ UNCHANGED <<isCreating, isEditing, editingGeofence, selectedCenter, radius,
                 geofenceName, showNameModal, opened, pendingSets, pushed>>
  /\ UNCHANGED <<storeVars, mapVars, pairVars>>

\* loadGeofences: the read fails, the list stays as it was.
LoadReject ==
  /\ loadPending
  /\ loadPending' = FALSE
  /\ UNCHANGED zoneLast
  /\ UNCHANGED <<geofences, isCreating, isEditing, editingGeofence, selectedCenter,
                 radius, geofenceName, showNameModal, opened, pendingSets, pushed>>
  /\ UNCHANGED <<storeVars, mapVars, pairVars>>

startCreating ==
  /\ ListMode
  /\ zoneLast.issued < MaxSets
  /\ IF Len(geofences) >= MaxSafeZones
     THEN /\ Did("startCreating", "refused")
          /\ UNCHANGED <<isCreating, isEditing, editingGeofence, selectedCenter, radius,
                         geofenceName>>
     ELSE /\ isCreating' = TRUE
          /\ isEditing' = FALSE
          /\ editingGeofence' = NoZone
          /\ selectedCenter' = NoCenter
          /\ radius' = DefaultRadius
          /\ geofenceName' = ""
          /\ Did("startCreating", "started")
  /\ UNCHANGED <<geofences, showNameModal, opened, loadPending, pendingSets, pushed>>
  /\ UNCHANGED <<storeVars, mapVars, pairVars>>

\* A press on a zone of the list or on its marker. A record without a center
\* cannot be drawn, and is not offered.
startEditing(i) ==
  /\ opened
  /\ ~showNameModal
  /\ zoneLast.issued < MaxSets
  /\ i \in 1 .. Len(geofences)
  /\ HasCenter(geofences[i])
  /\ isEditing' = TRUE
  /\ isCreating' = FALSE
  /\ editingGeofence' = geofences[i]
  /\ selectedCenter' = geofences[i].center
  /\ radius' = geofences[i].radius
  /\ geofenceName' = geofences[i].name
  /\ UNCHANGED zoneLast
  /\ UNCHANGED <<geofences, showNameModal, opened, loadPending, pendingSets, pushed>>
  /\ UNCHANGED <<storeVars, mapVars, pairVars>>

\* The Cancel button of the creation controls.
CancelPress ==
  /\ opened
  /\ isCreating \/ isEditing
  /\ ~showNameModal
  /\ cancelOperation
  /\ UNCHANGED zoneLast
  /\ UNCHANGED <<geofences, opened, pendingSets, pushed>>
  /\ UNCHANGED <<storeVars, mapVars, pairVars>>

handleMapPress(place) ==
  /\ opened
  /\ ~showNameModal
  /\ (isCreating \/ isEditing) /\ selectedCenter = NoCenter
  /\ selectedCenter' = place
  /\ UNCHANGED zoneLast
  /\ UNCHANGED <<geofences, isCreating, isEditing, editingGeofence, radius, geofenceName,
                 showNameModal, opened, loadPending, pendingSets, pushed>>
  /\ UNCHANGED <<storeVars, mapVars, pairVars>>

\* The marker's onDragEnd.
DragMarker(place) ==
  /\ opened
  /\ ~showNameModal
  /\ (isCreating \/ isEditing) /\ selectedCenter # NoCenter
  /\ selectedCenter # place
  /\ selectedCenter' = place
  /\ UNCHANGED zoneLast
  /\ UNCHANGED <<geofences, isCreating, isEditing, editingGeofence, radius, geofenceName,
                 showNameModal, opened, loadPending, pendingSets, pushed>>
  /\ UNCHANGED <<storeVars, mapVars, pairVars>>

\* A search result is chosen: its place and its name are taken over.
handleSearchSelect(place, name) ==
  /\ opened
  /\ ~showNameModal
  /\ isCreating \/ isEditing
  /\ selectedCenter' = place
  /\ geofenceName' = name
  /\ UNCHANGED zoneLast
  /\ UNCHANGED <<geofences, isCreating, isEditing, editingGeofence, radius,
                 showNameModal, opened, loadPending, pendingSets, pushed>>
  /\ UNCHANGED <<storeVars, mapVars, pairVars>>

\* The Slider's onValueChange: the slider is shown once a center is chosen,
\* and reports only what the user drags it to.
SliderChange(v) ==
  /\ opened
  /\ ~showNameModal
  /\ (isCreating \/ isEditing) /\ selectedCenter # NoCenter
  /\ radius' = v
  /\ UNCHANGED zoneLast
  /\ UNCHANGED <<geofences, isCreating, isEditing, editingGeofence, selectedCenter,
                 geofenceName, showNameModal, opened, loadPending, pendingSets, pushed>>
  /\ UNCHANGED <<storeVars, mapVars, pairVars>>

\* The Save / Update button, disabled while no center is chosen.
OpenNameModal ==
  /\ opened
  /\ ~showNameModal
  /\ (isCreating \/ isEditing) /\ selectedCenter # NoCenter
  /\ showNameModal' = TRUE
  /\ UNCHANGED zoneLast
  /\ UNCHANGED <<geofences, isCreating, isEditing, editingGeofence, selectedCenter,
                 radius, geofenceName, opened, loadPending, pendingSets, pushed>>
  /\ UNCHANGED <<storeVars, mapVars, pairVars>>

\* The modal's Cancel button and onRequestClose.
CloseNameModal ==
  /\ showNameModal
  /\ showNameModal' = FALSE
  /\ UNCHANGED zoneLast
  /\ UNCHANGED <<geofences, isCreating, isEditing, editingGeofence, selectedCenter,
                 radius, geofenceName, opened, loadPending, pendingSets, pushed>>
  /\ UNCHANGED <<storeVars, mapVars, pairVars>>

\* The modal's name field.
ChangeName(text) ==
  /\ showNameModal
  /\ geofenceName # text
  /\ geofenceName' = text
  /\ UNCHANGED zoneLast
  /\ UNCHANGED <<geofences, isCreating, isEditing, editingGeofence, selectedCenter,
                 radius, showNameModal, opened, loadPending, pendingSets, pushed>>
  /\ UNCHANGED <<storeVars, mapVars, pairVars>>

\* Faulty variant of saveGeofence: the name is not looked at.
saveGeofenceAnyName(modal) ==
  IF selectedCenter = NoCenter
  THEN /\ showNameModal' = modal
       /\ Did("saveGeofence", "refused")
       /\ UNCHANGED <<pendingSets, pushed>>
  ELSE /\ showNameModal' = modal
       /\ pushed' = pushed + 1
       /\ pendingSets' = Append(pendingSets,
            [op |-> "saveGeofence", key |-> PushKey(pushed),
             value |-> [name |-> Trim(geofenceName), center |-> selectedCenter,
                        radius |-> radius, isActive |-> TRUE,
                        createdAt |-> Len(StoredCatalogue) + pushed + 1]])
       /\ Requested("saveGeofence")

\* saveGeofence up to its await (lines 245-268); modal is what the caller has
\* set showNameModal to. Date.now() is later than every stored createdAt.
saveGeofence(modal) ==
  IF selectedCenter = NoCenter
  THEN /\ showNameModal' = modal
       /\ Did("saveGeofence", "refused")
       /\ UNCHANGED <<pendingSets, pushed>>
  ELSE IF Trim(geofenceName) = ""
  THEN /\ showNameModal' = TRUE
       /\ Did("saveGeofence", "refused")
       /\ UNCHANGED <<pendingSets, pushed>>
  ELSE /\ showNameModal' = modal
       /\ pushed' = pushed + 1
       /\ pendingSets' = Append(pendingSets,
            [op |-> "saveGeofence", key |-> PushKey(pushed),
             value |-> [name |-> Trim(geofenceName), center |-> selectedCenter,
                        radius |-> radius, isActive |-> TRUE,
                        createdAt |-> Len(StoredCatalogue) + pushed + 1]])
       /\ Requested("saveGeofence")

\* updateGeofence up to its await (lines 278-299).
updateGeofence(modal) ==
  IF editingGeofence = NoZone \/ selectedCenter = NoCenter
  THEN /\ showNameModal' = modal
       /\ Did("updateGeofence", "refused")
       /\ UNCHANGED <<pendingSets, pushed>>
  ELSE IF Trim(geofenceName) = ""
  THEN /\ showNameModal' = TRUE
       /\ Did("updateGeofence", "refused")
       /\ UNCHANGED <<pendingSets, pushed>>
  ELSE /\ showNameModal' = modal
       /\ pendingSets' = Append(pendingSets,
            [op |-> "updateGeofence", key |-> editingGeofence.id,
             value |-> [editingGeofence EXCEPT !.name = Trim(geofenceName),
                                               !.center = selectedCenter,
                                               !.radius = radius]])
       /\ Requested("updateGeofence")
       /\ UNCHANGED pushed

\* The modal's Save button and the name field's onSubmitEditing.
handleSaveWithName ==
  /\ showNameModal
  /\ MayRequest
  /\ IF Trim(geofenceName) = ""
     THEN /\ Did("handleSaveWithName", "refused")
          /\ UNCHANGED <<showNameModal, pendingSets, pushed>>
     ELSE IF isCreating THEN saveGeofence(FALSE)
     ELSE IF isEditing THEN updateGeofence(FALSE)
     ELSE /\ showNameModal' = FALSE
          /\ Did("handleSaveWithName", "none")
          /\ UNCHANGED <<pendingSets, pushed>>
  /\ UNCHANGED <<geofences, isCreating, isEditing, editingGeofence, selectedCenter,
                 radius, geofenceName, opened, loadPending>>
  /\ UNCHANGED <<storeVars, mapVars, pairVars>>

\* The list's pause / play button.
toggleGeofence(i) ==
  /\ ListMode
  /\ MayRequest
  /\ i \in 1 .. Len(geofences)
  /\ pendingSets' = Append(pendingSets,
       [op |-> "toggleGeofence", key |-> geofences[i].id,
        value |-> ~geofences[i].isActive])
  /\ Requested("toggleGeofence")
  /\ UNCHANGED <<geofences, isCreating, isEditing, editingGeofence, selectedCenter,
                 radius, geofenceName, showNameModal, opened, loadPending, pushed>>
  /\ UNCHANGED <<storeVars, mapVars, pairVars>>

\* The list's trash button, confirmed in the alert.
deleteGeofence(i) ==
  /\ ListMode
  /\ MayRequest
  /\ i \in 1 .. Len(geofences)
  /\ pendingSets' = Append(pendingSets,
       [op |-> "deleteGeofence", key |-> geofences[i].id, value |-> NoZone])
  /\ Requested("deleteGeofence")
  /\ UNCHANGED <<geofences, isCreating, isEditing, editingGeofence, selectedCenter,
                 radius, geofenceName, showNameModal, opened, loadPending, pushed>>
  /\ UNCHANGED <<storeVars, mapVars, pairVars>>

\* What the store holds once the request is applied. set() on geofences/key
\* replaces the record or creates it, set(null) removes it, and set() on
\* geofences/key/isActive changes that field, creating the node if it is gone.
Applied(req) ==
  LET at == IndexOf(req.key)
  IN  CASE req.op = "saveGeofence" ->
             Append(dbGeofences, [id |-> req.key] @@ req.value)
        [] req.op = "updateGeofence" ->
             IF at = 0 THEN Append(dbGeofences, req.value)
             ELSE [dbGeofences EXCEPT ![at] = req.value]
        [] req.op = "toggleGeofence" ->
             IF at = 0 THEN Append(dbGeofences, [id |-> req.key, isActive |-> req.value])
             ELSE [dbGeofences EXCEPT ![at].isActive = req.value]
        [] OTHER ->
             IF at = 0 THEN dbGeofences ELSE RemoveAt(dbGeofences, at)

\* The oldest set() is answered: the store changes and the handler goes on.
\* saveGeofence and updateGeofence end in cancelOperation, the other two in
\* loadGeofences.
SetResolve ==
  /\ pendingSets # <<>>
  /\ LET req == Head(pendingSets)
     IN  /\ dbGeofences' = Applied(req)
         /\ pendingSets' = Tail(pendingSets)
         /\ Did(req.op, "written")
         /\ IF req.op \in {"saveGeofence", "updateGeofence"}
            THEN cancelOperation
            ELSE /\ loadPending' = TRUE
                 /\ UNCHANGED <<isCreating, isEditing, editingGeofence, selectedCenter,
                                radius, geofenceName, showNameModal>>
  /\ UNCHANGED <<geofences, opened, pushed>>
  /\ UNCHANGED <<dbLocation, mapVars, pairVars>>

\* The oldest set() is refused: the handler's catch reports it and nothing
\* else changes.
SetReject ==
  /\ pendingSets # <<>>
  /\ pendingSets' = Tail(pendingSets)
  /\ Did(Head(pendingSets).op, "failed")
  /\ UNCHANGED <<geofences, isCreating, isEditing, editingGeofence, selectedCenter,
                 radius, geofenceName, showNameModal, opened, loadPending, pushed>>
  /\ UNCHANGED <<storeVars, mapVars, pairVars>>

\* saveGeofence and updateGeofence called as they stand, in whatever state the
\* screen is in.
CallSave ==
  /\ opened
  /\ MayRequest
  /\ saveGeofence(showNameModal)
  /\ UNCHANGED <<geofences, isCreating, isEditing, editingGeofence, selectedCenter,
                 radius, geofenceName, opened, loadPending>>
  /\ UNCHANGED <<storeVars, mapVars, pairVars>>

CallUpdate ==
  /\ opened
  /\ MayRequest
  /\ updateGeofence(showNameModal)
  /\ UNCHANGED <<geofences, isCreating, isEditing, editingGeofence, selectedCenter,
                 radius, geofenceName, opened, loadPending>>
  /\ UNCHANGED <<storeVars, mapVars, pairVars>>

\* The screen as useState leaves it before its effects run.
InitGeofenceScreen ==
  /\ geofences = <<>>
  /\ isCreating = TRUE
  /\ isEditing = FALSE
  /\ editingGeofence = NoZone
  /\ selectedCenter = NoCenter
  /\ radius = DefaultRadius
  /\ geofenceName = ""
  /\ showNameModal = FALSE
  /\ opened = FALSE
  /\ loadPending = FALSE
  /\ pendingSets = <<>>
  /\ pushed = 0
  /\ zoneLast = [op |-> "none", outcome |-> "none", issued |-> 0]

\* ------------------------------------------------- app/settings.tsx: pairing

\* The furthest the clock runs.
MaxClock == 3

\* The parent signed in (user.uid), the child devices and the pairing codes.
uid == "u1"
Devices == {"d1", "d2"}
Codes == {"AB", "CD"}

\* A null device, parent, code or pairing_codes entry.
NoDevice == "null"
NoParent == "null"
NoCode == "null"
NoEntry == [null |-> TRUE]

\* What is typed into the pairing code field.
TypedCodes == {" ", "ab ", "CD", "XY"}

\* pairingCode.trim(), and pairingCode.trim().toUpperCase().
TrimCode(text) ==
  CASE text = " " -> ""
    [] text = "ab " -> "ab"
    [] OTHER -> text

UpperCode(text) == IF text = "ab" THEN "AB" ELSE text

\* The pairing_codes entries the devices have generated: AB for d1, without
\* expiry (expiresAt 0), and CD for d2, expiring at time 2.
CodeEntry(code) ==
  IF code = "AB"
  THEN [deviceId |-> "d1", expiresAt |-> 0, claimedBy |-> NoParent]
  ELSE [deviceId |-> "d2", expiresAt |-> 2, claimedBy |-> NoParent]

\* pairing_codes/<code>, NoEntry for a code the store does not hold.
EntryOf(code) == IF code \in Codes THEN pairing_codes[code] ELSE NoEntry

\* The Pair Device form is shown while useAuth reports no pairing, the Unpair
\* button while it reports one.
isPaired == paired_devices # NoDevice

Idle == [op |-> "idle"]

\* History: the handler op has finished with outcome.
Finished(op, outcome) == pairLast' = [op |-> op, outcome |-> outcome]

\* fetchSettings: the screen is entered and reads paired_devices/<uid>.
fetchSettings ==
  /\ pairTask = Idle
  /\ deviceId # paired_devices
  /\ deviceId' = paired_devices
  /\ UNCHANGED <<paired_devices, device_info, pairing_codes, claimedCode, pairingCode,
                 now, pairTask, pairLast>>
  /\ UNCHANGED <<storeVars, mapVars, zoneVars>>

\* The pairing code field.
ChangeCode(text) ==
  /\ pairTask = Idle
  /\ ~isPaired
  /\ pairingCode # text
  /\ pairingCode' = text
  /\ UNCHANGED <<paired_devices, device_info, pairing_codes, claimedCode, deviceId,
                 now, pairTask, pairLast>>
  /\ UNCHANGED <<storeVars, mapVars, zoneVars>>

\* Time passes.
ClockTick ==
  /\ now < MaxClock
  /\ now' = now + 1
  /\ UNCHANGED <<paired_devices, device_info, pairing_codes, claimedCode, deviceId,
                 pairingCode, pairTask, pairLast>>
  /\ UNCHANGED <<storeVars, mapVars, zoneVars>>

\* handleClaimPairingCode up to its first write (lines 149-173): the guards,
\* the read of pairing_codes/<CODE> and the test of its expiry. readOk is
\* whether the read succeeds.
handleClaimPairingCode(readOk) ==
  /\ pairTask = Idle
  /\ ~isPaired
  /\ LET code == UpperCode(TrimCode(pairingCode))
         entry == EntryOf(code)
     IN  IF TrimCode(pairingCode) = ""
         THEN /\ Finished("claim", "refused")
              /\ UNCHANGED pairTask
         ELSE IF ~readOk
         THEN /\ Finished("claim", "failed")
              /\ UNCHANGED pairTask
         ELSE IF entry = NoEntry
         THEN /\ Finished("claim", "invalid")
              /\ UNCHANGED pairTask
         ELSE /\ pairTask' =
                   [op |-> "claim", code |-> code, device |-> entry.deviceId,
                    expiresAt |-> entry.expiresAt, readAt |-> now,
                    step |-> IF entry.expiresAt # 0 /\ entry.expiresAt < now
                             THEN 0 ELSE 1]
              /\ UNCHANGED pairLast
  /\ UNCHANGED <<paired_devices, device_info, pairing_codes, claimedCode, deviceId,
                 pairingCode, now>>
  /\ UNCHANGED <<storeVars, mapVars, zoneVars>>

\* The next set() of handleClaimPairingCode succeeds: the expired code is
\* cleared (step 0, line 171), or claimedCode (1), claimedBy (2),
\* paired_devices (3) and device_info parentUid (4) are written, lines 176-187.
ClaimWrite ==
  /\ pairTask # Idle
  /\ pairTask.op = "claim"
  /\ pairing_codes' =
       IF pairTask.step = 0 THEN [pairing_codes EXCEPT ![pairTask.code] = NoEntry]
       ELSE IF pairTask.step = 2
       THEN [pairing_codes EXCEPT ![pairTask.code] =
               IF @ = NoEntry THEN [claimedBy |-> uid] ELSE [@ EXCEPT !.claimedBy = uid]]
       ELSE pairing_codes
  /\ claimedCode' = IF pairTask.step = 1 THEN pairTask.code ELSE claimedCode
  /\ paired_devices' = IF pairTask.step = 3 THEN pairTask.device ELSE paired_devices
  /\ device_info' =
       IF pairTask.step = 4 THEN [device_info EXCEPT ![pairTask.device] = uid]
       ELSE device_info
  /\ IF pairTask.step = 0
     THEN /\ pairTask' = Idle
          /\ Finished("claim", "expired")
          /\ UNCHANGED pairingCode
     ELSE IF pairTask.step = 4
     THEN /\ pairTask' = Idle
          /\ Finished("claim", "paired")
          /\ pairingCode' = ""
     ELSE /\ pairTask' = [pairTask EXCEPT !.step = @ + 1]
          /\ UNCHANGED <<pairLast, pairingCode>>
  /\ UNCHANGED <<deviceId, now>>
  /\ UNCHANGED <<storeVars, mapVars, zoneVars>>

\* The next set() of handleClaimPairingCode is refused: the catch reports it
\* and the handler ends, the earlier writes standing.
ClaimWriteFail ==
  /\ pairTask # Idle
  /\ pairTask.op = "claim"
  /\ pairTask' = Idle
  /\ Finished("claim", "failed")
  /\ UNCHANGED <<paired_devices, device_info, pairing_codes, claimedCode, deviceId,
                 pairingCode, now>>
  /\ UNCHANGED <<storeVars, mapVars, zoneVars>>

\* handleUnpairDevice, confirmed in its alert, up to its first write (lines
\* 204-226): the guard and the read of the claimed code.
handleUnpairDevice(readOk) ==
  /\ pairTask = Idle
  /\ isPaired
  /\ IF deviceId = NoDevice
     THEN /\ Finished("unpair", "refused")
          /\ UNCHANGED pairTask
     ELSE IF ~readOk
     THEN /\ Finished("unpair", "failed")
          /\ UNCHANGED pairTask
     ELSE /\ pairTask' = [op |-> "unpair", code |-> claimedCode, device |-> deviceId,
                          step |-> 1]
          /\ UNCHANGED pairLast
  /\ UNCHANGED <<paired_devices, device_info, pairing_codes, claimedCode, deviceId,
                 pairingCode, now>>
  /\ UNCHANGED <<storeVars, mapVars, zoneVars>>

\* The next set() of the unpair action succeeds: device_info parentUid (1),
\* paired_devices (2), claimedCode (3), the code's claimedBy (4, when a code
\* was claimed) and the SMS number (5) are cleared, lines 229-243.
UnpairWrite ==
  /\ pairTask # Idle
  /\ pairTask.op = "unpair"
  /\ device_info' =
       IF pairTask.step = 1 THEN [device_info EXCEPT ![pairTask.device] = NoParent]
       ELSE device_info
  /\ paired_devices' = IF pairTask.step = 2 THEN NoDevice ELSE paired_devices
  /\ claimedCode' = IF pairTask.step = 3 THEN NoCode ELSE claimedCode
  /\ pairing_codes' =
       IF pairTask.step = 4 /\ pairTask.code # NoCode /\ pairing_codes[pairTask.code] # NoEntry
       THEN [pairing_codes EXCEPT ![pairTask.code].claimedBy = NoParent]
       ELSE pairing_codes
  /\ IF pairTask.step = 5
     THEN /\ pairTask' = Idle
          /\ Finished("unpair", "unpaired")
          /\ deviceId' = NoDevice
     ELSE /\ pairTask' = [pairTask EXCEPT !.step = @ + 1]
          /\ UNCHANGED <<pairLast, deviceId>>
  /\ UNCHANGED <<pairingCode, now>>
  /\ UNCHANGED <<storeVars, mapVars, zoneVars>>

\* The next set() of the unpair action is refused.
UnpairWriteFail ==
  /\ pairTask # Idle
  /\ pairTask.op = "unpair"
  /\ pairTask' = Idle
  /\ Finished("unpair", "failed")
  /\ UNCHANGED <<paired_devices, device_info, pairing_codes, claimedCode, deviceId,
                 pairingCode, now>>
  /\ UNCHANGED <<storeVars, mapVars, zoneVars>>

\* The settings screen as useState leaves it.
InitSettingsScreen ==
  /\ deviceId = NoDevice
  /\ pairingCode = ""
  /\ pairTask = Idle
  /\ pairLast = [op |-> "none", outcome |-> "none"]

\* No device is paired: every device has generated its code.
Unpaired ==
  /\ paired_devices = NoDevice
  /\ device_info = [d \in Devices |-> NoParent]
  /\ pairing_codes = [c \in Codes |-> CodeEntry(c)]
  /\ claimedCode = NoCode
  /\ now = 1

\* Device d1 is paired through its code AB.
PairedD1 ==
  /\ paired_devices = "d1"
  /\ device_info = [d \in Devices |-> IF d = "d1" THEN uid ELSE NoParent]
  /\ pairing_codes = [c \in Codes |->
       IF c = "AB" THEN [CodeEntry(c) EXCEPT !.claimedBy = uid] ELSE CodeEntry(c)]
  /\ claimedCode = "AB"
  /\ now = 1

\* ------------------------------------------------------------ specification

NoFetches == [s \in Status |-> 0]

InitScreen ==
  /\ childLocation = NoLocation
  /\ loading = TRUE
  /\ geofenceStatus = "unknown"
  /\ previousGeofenceStatus = "unknown"
  /\ rPrev = "unknown"
  /\ rLoc = NoLocation
  /\ locFresh = FALSE
  /\ fetches = NoFetches
  /\ listeners = {}
  /\ pendingL = {}
  /\ suspended = <<>>
  /\ last = NoCall
  /\ overlapped = FALSE
  /\ fired = NoneFired
  /\ readFailed = FALSE
  /\ writes = 0
  /\ starts = 0
  /\ InitGeofenceScreen
  /\ InitSettingsScreen

Init ==
  /\ dbLocation \in StoreLocations \cup {NoLocation}
  /\ dbGeofences \in StoreZoneLists
  /\ mounted = FALSE
  /\ InitScreen
  /\ Unpaired

Next ==
  \/ Render
  \/ Tick
  \/ Refresh
  \/ \E prev \in Status : FetchResolve(prev)
  \/ \E prev \in Status : FetchFail(prev)
  \/ \E l \in pendingL : ListenerFire(l)
  \/ \E l \in listeners : ListenerError(l)
  \/ \E i \in 1 .. MaxSuspended : NotifyResolve(i)
  \/ \E i \in 1 .. MaxSuspended : NotifyReject(i)
  \/ SkipLoading
  \/ \E loc \in StoreLocations \cup {NoLocation} : DbWriteLocation(loc)
  \/ \E gs \in StoreZoneLists : DbWriteGeofences(gs)

Spec == Init /\ [][Next]_vars

\* ------------------------------------------- checkGeofenceStatus on its own

\* A render that commits the callback, with no trigger attached to the screen.
RenderCallback ==
  /\ NeedsRender
  /\ CommitRender
  /\ readFailed' = FALSE
  /\ UNCHANGED elsewhere
  /\ UNCHANGED <<storeVars, stateVars, taskVars, historyVars, envVars>>

\* A host calls the callback of the committed render, one call after another:
\* no call is waiting and no render is due.
DirectCall(childLoc, activeGeofences) ==
  /\ ~NeedsRender
  /\ suspended = <<>>
  /\ checkGeofenceStatus(childLoc, activeGeofences, rPrev, "direct")
  /\ readFailed' = FALSE
  /\ UNCHANGED elsewhere
  /\ UNCHANGED <<storeVars, childLocation, loading, renderVars, fetches, listeners,
                 pendingL, envVars>>

InitSeq ==
  /\ dbLocation = NoLocation
  /\ dbGeofences = <<>>
  /\ mounted = TRUE
  /\ InitScreen
  /\ Unpaired

NextSeq ==
  \/ \E childLoc \in Locations \cup {NoLocation}, gs \in ZoneLists :
       DirectCall(childLoc, gs)
  \/ NotifyResolve(1)
  \/ NotifyReject(1)
  \/ RenderCallback

SpecSeq == InitSeq /\ [][NextSeq]_vars

\* ------------------------------ checkGeofenceStatus on edge and malformed zones

\* Samples for the zones below: the default position reported twice (a newer
\* and an older timestamp), the point one step north of it (55.555 m away),
\* and the point one step north and one step east of it (77.216 m away).
EdgeLocations == {Loc(0, 0, 5), Loc(0, 0, 1), Loc(1, 0, 3), Loc(1, 1, 2)}

\* "Yard": around the default position, its radius the distance of the point
\* one step north, or one millimetre less.  "Broken": a record at the
\* north-east point whose radius is not positive (-5 m, or 0).
EdgeCatalogue ==
  { Zone("c", "Yard", Coord(0, 0), r, TRUE) : r \in {55555, 55554} }
  \cup { Zone("d", "Broken", Coord(1, 1), r, TRUE) : r \in {-5000, 0} }

EdgeZoneLists ==
  { gs \in UNION { [1 .. n -> EdgeCatalogue] : n \in 0 .. MaxZones } : DistinctIds(gs) }

NextEdge ==
  \/ \E childLoc \in EdgeLocations \cup {NoLocation}, gs \in EdgeZoneLists :
       DirectCall(childLoc, gs)
  \/ NotifyResolve(1)
  \/ NotifyReject(1)
  \/ RenderCallback

SpecEdge == InitSeq /\ [][NextEdge]_vars

\* ------------------------------------- checkGeofenceStatus on damaged records

\* Samples for the records below: the center of Yard, and a point outside it.
RecordLocations == {Loc(0, 0, 1), Loc(1, 1, 2)}

\* "Yard", a valid zone; "Ghost", an active record with no center; "Blank",
\* an active record whose center has no latitude.
RecordCatalogue ==
  { Zone("c", "Yard", Coord(0, 0), 55555, TRUE),
    [id |-> "g", name |-> "Ghost", radius |-> 100000, isActive |-> TRUE],
    [id |-> "h", name |-> "Blank", center |-> [longitude |-> 0], radius |-> 100000,
     isActive |-> TRUE] }

RecordZoneLists ==
  { gs \in UNION { [1 .. n -> RecordCatalogue] : n \in 0 .. MaxZones } : DistinctIds(gs) }

NextRecords ==
  \/ \E childLoc \in RecordLocations \cup {NoLocation}, gs \in RecordZoneLists :
       DirectCall(childLoc, gs)
  \/ NotifyResolve(1)
  \/ NotifyReject(1)
  \/ RenderCallback

SpecRecords == InitSeq /\ [][NextRecords]_vars

\* ------------------------------------------- the screen left to itself

\* The store holds any location and any zone list, and does not change.
InitSettle ==
  /\ dbLocation \in Locations \cup {NoLocation}
  /\ dbGeofences \in ZoneLists
  /\ mounted = FALSE
  /\ InitScreen
  /\ Unpaired

\* What the screen does without the interval, the user or the store acting:
\* renders and their effects, reads completing or failing, snapshots
\* arriving.  A call that requested a notification would stay in suspended.
NextSettle ==
  \/ Render
  \/ \E prev \in Status : FetchResolve(prev)
  \/ \E prev \in Status : FetchFail(prev)
  \/ \E l \in pendingL : ListenerFire(l)
  \/ \E l \in listeners : ListenerError(l)

\* A scheduled render commits, a started read completes or fails, a due
\* snapshot is delivered.
FairSettle ==
  /\ WF_vars(Render)
  /\ WF_vars(\E prev \in Status : FetchResolve(prev) \/ FetchFail(prev))
  /\ WF_vars(\E l \in pendingL : ListenerFire(l))

SpecSettle == InitSettle /\ [][NextSettle]_vars /\ FairSettle

\* ------------------------------------------------ the geofence screen in use

InitZones ==
  /\ dbLocation = NoLocation
  /\ dbGeofences \in ZoneStores
  /\ mounted = FALSE
  /\ InitScreen
  /\ Unpaired

NextZones ==
  \/ \E place \in Places : MountWithParams(place)
  \/ MountPlain
  \/ LoadResolve
  \/ LoadReject
  \/ startCreating
  \/ \E i \in 1 .. MaxPressed : startEditing(i)
  \/ CancelPress
  \/ \E place \in Places : handleMapPress(place)
  \/ \E place \in Places : DragMarker(place)
  \/ \E place \in Places, name \in PlaceNames : handleSearchSelect(place, name)
  \/ \E v \in SliderValues : SliderChange(v)
  \/ OpenNameModal
  \/ CloseNameModal
  \/ \E text \in TypedNames : ChangeName(text)
  \/ handleSaveWithName
  \/ \E i \in 1 .. MaxPressed : toggleGeofence(i)
  \/ \E i \in 1 .. MaxPressed : deleteGeofence(i)
  \/ SetResolve
  \/ SetReject

SpecZones == InitZones /\ [][NextZones]_vars

\* The screen's creation and editing controls, with saveGeofence and
\* updateGeofence also called as they stand; the list's toggle and trash
\* buttons are left alone.
NextZoneCalls ==
  \/ \E place \in Places : MountWithParams(place)
  \/ MountPlain
  \/ LoadResolve
  \/ LoadReject
  \/ startCreating
  \/ \E i \in 1 .. MaxPressed : startEditing(i)
  \/ CancelPress
  \/ \E place \in Places : handleMapPress(place)
  \/ \E place \in Places : DragMarker(place)
  \/ \E place \in Places, name \in PlaceNames : handleSearchSelect(place, name)
  \/ \E v \in SliderValues : SliderChange(v)
  \/ OpenNameModal
  \/ CloseNameModal
  \/ \E text \in TypedNames : ChangeName(text)
  \/ handleSaveWithName
  \/ CallSave
  \/ CallUpdate
  \/ SetResolve
  \/ SetReject

\* The screen opened on a store of two zones.
InitZoneCalls ==
  /\ dbLocation = NoLocation
  /\ dbGeofences = SubSeq(StoredCatalogue, 1, 2)
  /\ mounted = FALSE
  /\ InitScreen
  /\ Unpaired

SpecZoneCalls == InitZoneCalls /\ [][NextZoneCalls]_vars

\* ------------------------------------------------ the settings screen in use

InitPairing ==
  /\ dbLocation = NoLocation
  /\ dbGeofences = <<>>
  /\ mounted = FALSE
  /\ InitScreen
  /\ Unpaired \/ PairedD1

NextPairing ==
  \/ fetchSettings
  \/ \E text \in TypedCodes : ChangeCode(text)
  \/ ClockTick
  \/ \E readOk \in BOOLEAN : handleClaimPairingCode(readOk)
  \/ ClaimWrite
  \/ ClaimWriteFail
  \/ \E readOk \in BOOLEAN : handleUnpairDevice(readOk)
  \/ UnpairWrite
  \/ UnpairWriteFail

SpecPairing == InitPairing /\ [][NextPairing]_vars

\* ------------------------------------------------------------------- claims

C2_OneNotificationPerChange ==
  fired.entered <= 1 /\ fired.exited <= 1

\* C3 (Spec), as claimed: no call of checkGeofenceStatus begins while another
\* call has started and not yet stored its previous status.
C3_CallsSerialized == ~overlapped

\* C4 (SpecSeq), as claimed: a call given a list with no active zone raises
\* no event and leaves the stored previous status 'unknown'.
C4_NoActiveZoneResets ==
  (last.trigger = "direct" /\ ~HasActive(last.zones)) =>
    (last.event = "none" /\ previousGeofenceStatus = "unknown")

\* C5 (SpecSeq): a call without a location raises no event and resets the
\* stored previous status to 'unknown', also when it was 'inside'; and the call
\* after such a reset from 'inside' raises no event when it computes 'inside'.
C5_LostLocationIsSilent ==
  /\ (last.trigger = "direct" /\ last.childLoc = NoLocation) =>
       (last.event = "none" /\ last.outcome = "done"
        /\ previousGeofenceStatus = "unknown" /\ geofenceStatus = "unknown")
  /\ (last.before = "lostInside" /\ last.currentStatus = "inside") =>
       (last.stored = "unknown" /\ last.event = "none")

C5_Witness ==
  /\ last.before = "lostInside"
  /\ last.childLoc # NoLocation
  /\ last.currentStatus = "inside"
  /\ previousGeofenceStatus = "inside"

\* C6 (SpecSeq): the previous status is 'unknown' before any call; a call that
\* finds the stored previous status 'unknown' raises no event whatever it
\* computes; and a second call with the inputs of such a first call raises none.
C6_UnknownPreviousIsSilent ==
  /\ (last.trigger = "none") => (previousGeofenceStatus = "unknown")
  /\ (last.trigger = "direct" /\ last.stored = "unknown") => (last.event = "none")
  /\ (last.repeat /\ last.before = "first") => (last.event = "none")

C6_Witness ==
  /\ last.repeat
  /\ last.before = "first"
  /\ last.currentStatus = "inside"
  /\ last.stored = "inside"

\* C7 (SpecSeq), as claimed: the second of two calls in a row with the same
\* location and the same zone list raises no event.
C7_RepeatedCallIsSilent ==
  last.repeat => (last.event = "none")

\* The name of the first zone of the list that is active and contains loc.
FirstContaining(loc, gs) ==
  LET hits == { i \in 1 .. Len(gs) :
                  gs[i].isActive /\ haversineDistance(loc, gs[i].center) <= gs[i].radius }
  IN  gs[CHOOSE i \in hits : \A j \in hits : i <= j].name

ContainingCount(loc, gs) ==
  Cardinality({ i \in 1 .. Len(gs) :
                  gs[i].isActive /\ haversineDistance(loc, gs[i].center) <= gs[i].radius })

\* C8 (SpecSeq): an Entered event names the first zone, in the order of the
\* list handed to the call, that is active and contains the location.
C8_EnteredNamesFirstZone ==
  (last.event = "entered") =>
    (last.zone = FirstContaining(last.childLoc, last.zones))

C8_Witness ==
  /\ last.event = "entered"
  /\ ContainingCount(last.childLoc, last.zones) = 2
  /\ last.zones[1].id = "b"
  /\ last.zone = "School"

\* C9 (Spec): a failed read (a fetch that throws, a listener that reports an
\* error) runs no evaluation: the stored previous status and the displayed
\* status stay as they are and no notification is requested.
C9_FailedReadKeepsStatus ==
  [][readFailed' =>
       UNCHANGED <<previousGeofenceStatus, geofenceStatus, suspended, fired, last,
                   overlapped>>]_vars

C9_Witness ==
  /\ readFailed
  /\ previousGeofenceStatus = "inside"
  /\ geofenceStatus = "inside"

\* C10 (SpecSeq), as claimed: a call whose notification delivery was rejected
\* has still stored the status it computed as the previous status.
C10_DeliveryFailureStillStores ==
  (last.outcome = "failed") => (previousGeofenceStatus = last.currentStatus)

\* The distance test of the loop: zone gs[i] lies within its radius of loc.
WithinRadius(loc, gs, i) ==
  haversineDistance(loc, gs[i].center) <= gs[i].radius

\* C11 (SpecSeq): an inactive zone takes no part in containment: a call computes
\* 'inside' only when an active zone of its list contains the location, and
\* the zone an Entered event names is an active zone of the list.
C11_InactiveZonesExcluded ==
  (last.trigger = "direct") =>
    /\ (last.currentStatus = "inside") =>
         \E i \in 1 .. Len(last.zones) :
           last.zones[i].isActive /\ WithinRadius(last.childLoc, last.zones, i)
    /\ (last.event = "entered") =>
         \E i \in 1 .. Len(last.zones) :
           last.zones[i].isActive /\ last.zones[i].name = last.zone

C11_Witness ==
  /\ last.event = "entered"
  /\ Len(last.zones) = 2
  /\ ~last.zones[1].isActive
  /\ WithinRadius(last.childLoc, last.zones, 1)
  /\ last.zone = last.zones[2].name

\* C12 (SpecEdge): containment includes the boundary: a call on a list of one
\* active zone computes 'inside' exactly when the distance from the location
\* to the zone's center is at most the radius, so also when it equals it.
C12_BoundaryInclusive ==
  (last.trigger = "direct" /\ last.childLoc # NoLocation /\ Len(last.zones) = 1
   /\ last.zones[1].isActive) =>
    LET distance == haversineDistance(last.childLoc, last.zones[1].center)
        edge == last.zones[1].radius
    IN  /\ (last.currentStatus = "inside") <=> (distance <= edge)
        /\ (distance = edge) => (geofenceStatus = "inside")

C12_Witness ==
  /\ last.trigger = "direct"
  /\ last.childLoc # NoLocation
  /\ Len(last.zones) = 1
  /\ haversineDistance(last.childLoc, last.zones[1].center) = last.zones[1].radius
  /\ last.zones[1].radius > 0
  /\ geofenceStatus = "inside"

\* The zones of a list whose radius is positive, in the order of the list.
ValidZones(gs) == SelectSeq(gs, LAMBDA g : g.radius > 0)

\* C13 (SpecEdge), as claimed: an active zone whose radius is not positive,
\* listed with valid active zones, never contains the location, and the call
\* computes its status and raises its event as if that zone were not listed.
C13_MalformedZoneIgnored ==
  (/\ last.trigger = "direct"
   /\ last.childLoc # NoLocation
   /\ \E i \in 1 .. Len(last.zones) : last.zones[i].isActive /\ last.zones[i].radius <= 0
   /\ HasActive(ValidZones(last.zones))) =>
    LET valid == ValidZones(last.zones)
        status == DeviceStatus(last.childLoc, valid)
    IN  /\ \A i \in 1 .. Len(last.zones) :
             (last.zones[i].radius <= 0) => ~WithinRadius(last.childLoc, last.zones, i)
        /\ last.currentStatus = status
        /\ last.event = NotificationFor(last.stored, status)
        /\ (last.event = "entered") => (last.zone = FirstContaining(last.childLoc, valid))

C15_PreviousIsComputedStatus ==
  (/\ last.trigger = "direct"
   /\ last.childLoc # NoLocation
   /\ HasActive(last.zones)
   /\ last.outcome \in {"done", "failed"}) =>
    (previousGeofenceStatus = last.currentStatus)

\* C16 (SpecSeq), as claimed: when one call finds the location inside an
\* active zone A and the next call finds it inside another active zone B and
\* no longer inside A, the second call raises no event.
C16_ZoneToZoneIsSilent ==
  [][(/\ last.trigger = "direct"
      /\ last.currentStatus = "inside"
      /\ last'.trigger = "direct"
      /\ last'.currentStatus = "inside"
      /\ FirstContaining(last'.childLoc, last'.zones)
           # FirstContaining(last.childLoc, last.zones)
      /\ \A i \in 1 .. Len(last'.zones) :
           (last'.zones[i].name = FirstContaining(last.childLoc, last.zones)) =>
             ~(last'.zones[i].isActive /\ WithinRadius(last'.childLoc, last'.zones, i)))
     => (last'.event = "none")]_vars

\* C17 (SpecSeq): for a location and a list with an active zone, the status a
\* call computes and displays is 'inside' when some active zone of the list,
\* at whatever position, contains the location, and 'outside' when none does.
C17_StatusIsAnyActiveContains ==
  (last.trigger = "direct" /\ last.childLoc # NoLocation /\ HasActive(last.zones)) =>
    /\ last.currentStatus = DeviceStatus(last.childLoc, last.zones)
    /\ geofenceStatus = DeviceStatus(last.childLoc, last.zones)

C17_Witness ==
  /\ last.trigger = "direct"
  /\ geofenceStatus = "inside"
  /\ Len(last.zones) = 2
  /\ last.zones[1].isActive
  /\ ~WithinRadius(last.childLoc, last.zones, 1)
  /\ WithinRadius(last.childLoc, last.zones, 2)

\* C18 (SpecEdge): the outcome of a call depends on the sample's coordinates
\* and not on its timestamp: the status computed and displayed, the event
\* raised and the previous status stored are those of the place alone, also
\* for a sample older than the one the call before it was given.
C18_TimestampIgnored ==
  (last.trigger = "direct" /\ last.childLoc # NoLocation /\ HasActive(last.zones)) =>
    LET place == Coord(last.childLoc.latitude, last.childLoc.longitude)
        status == DeviceStatus(place, last.zones)
    IN  /\ last.currentStatus = status
        /\ geofenceStatus = status
        /\ last.event = NotificationFor(last.stored, status)
        /\ (last.outcome = "done") => (previousGeofenceStatus = status)

C18_Witness ==
  /\ last.trigger = "direct"
  /\ last.older
  /\ last.event = "entered"
  /\ last.outcome = "done"
  /\ previousGeofenceStatus = "inside"

\* C19 (Spec), as claimed: a call the zone listener makes uses the location
\* the screen holds (the one the latest poll evaluated), never an earlier
\* one, and never takes the location for absent before a fetch has read it.
C19_ListenerUsesCurrentLocation ==
  [][\A l \in pendingL :
       ListenerFire(l) =>
         /\ l.childLocation = childLocation
         /\ ~(loading /\ l.childLocation = NoLocation)]_vars

\* C20 (Spec): only checkGeofenceStatus changes the stored previous status:
\* a step that changes it is a fetch or a listener calling the function, or a
\* waiting call resuming after its notification; a failed fetch, a refresh
\* or interval start, a render, the debug button and the store leave it alone.
C20_OnlyEvaluationWritesPrevious ==
  [][(previousGeofenceStatus' # previousGeofenceStatus) =>
       \/ \E prev \in Status : FetchResolve(prev)
       \/ \E l \in pendingL : ListenerFire(l)
       \/ \E i \in 1 .. Len(suspended) : NotifyResolve(i)]_vars

C20_Witness ==
  /\ starts = 1
  /\ InFlight > 0
  /\ ~loading
  /\ previousGeofenceStatus = "inside"
  /\ rPrev = "inside"

\* C21 (SpecSeq): an Entered event carries the name of a zone of the call's
\* list that is active and contains the location of that call, never null;
\* an Exited event carries no zone.
C21_EnteredCarriesContainingZone ==
  /\ (last.event = "entered") =>
       /\ last.zone # "null"
       /\ \E i \in 1 .. Len(last.zones) :
            /\ last.zones[i].name = last.zone
            /\ last.zones[i].isActive
            /\ WithinRadius(last.childLoc, last.zones, i)
  /\ (last.event = "exited") => (last.zone = "null")

C21_Witness ==
  /\ last.event = "entered"
  /\ last.zone = "Home"
  /\ Len(last.zones) = 2
  /\ last.zones[2].name = "Home"
  /\ ~WithinRadius(last.childLoc, last.zones, 1)

\* The records of a list that have a center with both coordinates.
WellFormedZones(gs) ==
  SelectSeq(gs, LAMBDA g : HasCenter(g) /\ IsNumeric(g.center))

\* C22 (SpecRecords), as claimed: a record whose center is missing or invalid
\* is skipped on its own: the call completes, computes the status of the
\* remaining zones, raises the event they warrant and stores the status.
C22_BadCenterSkipped ==
  (/\ last.trigger = "direct"
   /\ last.childLoc # NoLocation
   /\ WellFormedZones(last.zones) # last.zones
   /\ HasActive(WellFormedZones(last.zones))) =>
    LET status == DeviceStatus(last.childLoc, WellFormedZones(last.zones))
    IN  /\ last.outcome # "threw"
        /\ last.currentStatus = status
        /\ geofenceStatus = status
        /\ last.event = NotificationFor(last.stored, status)
        /\ (last.outcome = "done") => (previousGeofenceStatus = status)

\* C24 (SpecSeq), as claimed: once a call has ended, normally or by a rejected
\* notification delivery, the displayed status equals the stored previous
\* status: both 'unknown' after a reset, both the computed status otherwise.
C24_DisplayedEqualsPrevious ==
  (last.trigger = "direct" /\ last.outcome \in {"done", "failed"}) =>
    /\ geofenceStatus = previousGeofenceStatus
    /\ IsReset(last.childLoc, last.zones) => (geofenceStatus = "unknown")
    /\ ~IsReset(last.childLoc, last.zones) => (geofenceStatus = last.currentStatus)

\* No evaluation is pending: no render is due, no read is in flight, no
\* snapshot is awaiting delivery and no call waits on a notification.
Settled ==
  /\ ~NeedsRender
  /\ InFlight = 0
  /\ pendingL = {}
  /\ suspended = <<>>

StoredAfter(key) ==
  IF \E j \in 1 .. Len(dbGeofences') : dbGeofences'[j].id = key
  THEN dbGeofences'[CHOOSE j \in 1 .. Len(dbGeofences') : dbGeofences'[j].id = key]
  ELSE NoZone

\* The step answers a set() of saveGeofence or updateGeofence with success.
WritesZone ==
  /\ pendingSets # <<>>
  /\ Head(pendingSets).op \in {"saveGeofence", "updateGeofence"}
  /\ pendingSets' = Tail(pendingSets)
  /\ zoneLast'.outcome = "written"

C26_AtMostFiveZones == Len(dbGeofences) <= MaxSafeZones

\* saveGeofence, or updateGeofence, is what the step runs.
RunsSave == CallSave \/ (handleSaveWithName /\ Trim(geofenceName) # "" /\ isCreating)
RunsUpdate ==
  CallUpdate \/ (handleSaveWithName /\ Trim(geofenceName) # "" /\ ~isCreating /\ isEditing)

\* C27: saveGeofence and updateGeofence never write a zone without a center
\* or with a name that is empty once trimmed; called with no center, with a
\* blank name or (updateGeofence) with no zone being edited, they request no
\* write, the store stays as it is and the screen stays in its mode.
C27_NoWriteWithoutCenterOrName ==
  [][/\ WritesZone =>
          /\ StoredAfter(Head(pendingSets).key).center # NoCenter
          /\ Trim(StoredAfter(Head(pendingSets).key).name) # ""
     /\ (/\ RunsSave \/ RunsUpdate
         /\ \/ selectedCenter = NoCenter
            \/ Trim(geofenceName) = ""
            \/ RunsUpdate /\ editingGeofence = NoZone) =>
          UNCHANGED <<dbGeofences, pendingSets, pushed, isCreating, isEditing>>]_vars

\* saveGeofence was called in creation mode with no center chosen, and
\* updateGeofence can be called with no zone being edited: nothing is waiting
\* to be written and the mode is kept.
C27_Witness ==
  /\ zoneLast.op = "saveGeofence"
  /\ zoneLast.outcome = "refused"
  /\ isCreating
  /\ selectedCenter = NoCenter
  /\ pendingSets = <<>>

\* C28: updateGeofence changes only the name, the center and the radius of the
\* zone: the id, the isActive flag and createdAt the store holds for it are
\* the same after the write as before it, also when the zone was toggled
\* after startEditing; saveGeofence creates the zone with isActive true.
C28_UpdateKeepsIdentityAndActivity ==
  [][WritesZone =>
       LET req == Head(pendingSets)
           at == IndexOf(req.key)
       IN  /\ (req.op = "updateGeofence" /\ at # 0
                /\ "createdAt" \in DOMAIN dbGeofences[at]) =>
                  /\ StoredAfter(req.key).id = dbGeofences[at].id
                  /\ StoredAfter(req.key).isActive = dbGeofences[at].isActive
                  /\ StoredAfter(req.key).createdAt = dbGeofences[at].createdAt
           /\ req.op = "saveGeofence" => StoredAfter(req.key).isActive]_vars

\* paired_devices/<uid> names device d exactly when device_info/<d>/parentUid
\* names the parent.
RecordsAgree ==
  \A d \in Devices : (paired_devices = d) <=> (device_info[d] = uid)

\* The claim in progress read a code that had expired: expiresAt is not 0 and
\* lies before the time of the read.
ClaimsExpiredCode ==
  /\ pairTask # Idle
  /\ pairTask.op = "claim"
  /\ pairTask.expiresAt # 0
  /\ pairTask.expiresAt < pairTask.readAt

\* C29: once handleClaimPairingCode or the unpair action has finished, with
\* success or with a refused write, paired_devices names device d exactly when
\* device_info of d names the parent; and a claim of an expired code changes
\* neither record.
C29_PairingRecordsAgree ==
  [][/\ (pairTask' = Idle /\ pairLast'.op # "none") => RecordsAgree'
     /\ ClaimsExpiredCode => UNCHANGED <<paired_devices, device_info>>]_vars

\* The part of C29 about expired codes, on its own.
ExpiredCodeNeverPairs ==
  [][ClaimsExpiredCode => UNCHANGED <<paired_devices, device_info>>]_vars

\* A claim of an expired code has finished.
ExpiredClaimFinished ==
  /\ pairLast = [op |-> "claim", outcome |-> "expired"]
  /\ pairTask = Idle

====
